---------------------------- MODULE Spec2Model ----------------------------
(***************************************************************************)
(* A model of three pieces of fairseq2:                                    *)
(*   - fairseq2/utils/config.py: StandardConfigProcessor.process and       *)
(*     process_config, the walk over nested configuration sections;        *)
(*   - fairseq2/data/tokenizers/handler.py: register_tokenizer_family,     *)
(*     its create_handler factory, and StandardTokenizerFamilyHandler;     *)
(*   - fairseq2/nn/module_list.py: ModuleList.__iter__.                    *)
(* Each piece has its own specification over the shared variables.         *)
(***************************************************************************)
EXTENDS Integers, Sequences, FiniteSets, TLC

VARIABLES
    config,            \* the object handed to process / process_config
    section_handlers,  \* the Provider[ConfigSectionHandler]: type -> handler
    calls,             \* section handler invocations made by the last walk
    raised,            \* exception that left the last walk (<<>>: none)
    entry,             \* which entry point ran last
    registrations,     \* container.register calls, with the closure cells
    creation,          \* the last create_handler invocation and what it did
    handler,           \* a constructed StandardTokenizerFamilyHandler
    supported_schemes, \* asset_download_manager.supported_schemes
    load,              \* the last call of a handler method
    modules,           \* the submodules a ModuleList holds
    drop_p,            \* ModuleList.drop_p, in units of 1/ProbScale
    training,          \* Module.training
    yielded            \* what the last iteration of the ModuleList yielded

vars == <<config, section_handlers, calls, raised, entry, registrations,
          creation, handler, supported_schemes, load, modules, drop_p,
          training, yielded>>

configVars == <<config, section_handlers, calls, raised, entry>>
registerVars == <<registrations, creation>>
loadVars == <<handler, supported_schemes, load>>
listVars == <<modules, drop_p, training, yielded>>

None == "None"

-----------------------------------------------------------------------------
(* Bounds *)

MaxNodes == 5

MaxRegistrations == 2

MaxModules == 3

ProbScale == 3

-----------------------------------------------------------------------------
(* Configuration objects.  A value is [type, vals]: for an instance of a   *)
(* dataclass vals are its field values in declaration order, for a list    *)
(* its elements, for an int nothing.                                       *)

DataclassTypes == {"A", "B", "C"}

OtherTypes == {"list", "int"}

\* dataclasses.fields(config_kls): the field names in declaration order
fields(config_kls) ==
    CASE config_kls = "A" -> <<"a1", "a2">>
      [] config_kls = "B" -> <<"b1">>
      [] OTHER -> <<>>

\* dataclasses.is_dataclass(config_kls)
is_dataclass(config_kls) == config_kls \in DataclassTypes

IntValue == [type |-> "int", vals |-> <<>>]

RECURSIVE ValuesOfSize(_)
ValuesOfSize(n) ==
    IF n <= 0 THEN {}
    ELSE (IF n = 1 THEN {IntValue, [type |-> "C", vals |-> <<>>]} ELSE {})
         \cup {[type |-> "B", vals |-> <<v>>] : v \in ValuesOfSize(n - 1)}
         \cup {[type |-> "list", vals |-> <<v>>] : v \in ValuesOfSize(n - 1)}
         \cup UNION {{[type |-> "A", vals |-> <<v, w>>] :
                          v \in ValuesOfSize(k), w \in ValuesOfSize(n - 1 - k)} :
                     k \in 1..(n - 2)}

Values == UNION {ValuesOfSize(n) : n \in 1..MaxNodes}

\* A provider maps a type to "none" (get raises LookupError), to a handler
\* that returns ("ok") or to one that raises StructureError.
Providers ==
    {p \in [DataclassTypes \cup OtherTypes -> {"none", "ok", "StructureError"}] :
        /\ p["list"] = p["int"]
        /\ p["list"] # "StructureError"}

\* Provider.get(config_kls)
ProviderGet(provider, config_kls) ==
    IF provider[config_kls] = "none" THEN "LookupError" ELSE config_kls

NoException == <<>>

RECURSIVE process(_, _, _), process_fields(_, _, _, _)

\* The loop over fields(config_kls) from field i on: stops at the first
\* field whose processing raises, wrapping the StructureError.
process_fields(provider, cfg, path, i) ==
    IF i > Len(fields(cfg.type))
    THEN [calls |-> <<>>, raised |-> NoException]
    ELSE LET field_value == cfg.vals[i]
             r == process(provider, field_value, Append(path, i))
         IN IF r.raised # NoException
            THEN [calls |-> r.calls,
                  raised |-> <<fields(cfg.type)[i]>> \o r.raised]
            ELSE LET rest == process_fields(provider, cfg, path, i + 1)
                 IN [calls |-> r.calls \o rest.calls, raised |-> rest.raised]

\* The mutated walk: a section without a handler is not descended into.
process_stop_at_lookup_error(provider, cfg, path) ==
    LET config_kls == cfg.type
    IN IF ~is_dataclass(config_kls)
       THEN [calls |-> <<>>, raised |-> NoException]
       ELSE LET section_handler == ProviderGet(provider, config_kls)
            IN IF section_handler = "LookupError"
               THEN [calls |-> <<>>, raised |-> NoException]
               ELSE LET own == <<[section |-> path, handler |-> section_handler]>>
                    IN IF provider[config_kls] = "StructureError"
                       THEN [calls |-> own, raised |-> <<"handler">>]
                       ELSE LET rest == process_fields(provider, cfg, path, 1)
                            IN [calls |-> own \o rest.calls, raised |-> rest.raised]

\* The mutated walk: the fields are processed before the section itself.
process_post_order(provider, cfg, path) ==
    LET config_kls == cfg.type
    IN IF ~is_dataclass(config_kls)
       THEN [calls |-> <<>>, raised |-> NoException]
       ELSE LET section_handler == ProviderGet(provider, config_kls)
                own == IF section_handler = "LookupError" THEN <<>>
                       ELSE <<[section |-> path, handler |-> section_handler]>>
                rest == process_fields(provider, cfg, path, 1)
            IN IF rest.raised # NoException
               THEN rest
               ELSE IF section_handler # "LookupError"
                       /\ provider[config_kls] = "StructureError"
                    THEN [calls |-> rest.calls \o own, raised |-> <<"handler">>]
                    ELSE [calls |-> rest.calls \o own, raised |-> NoException]

\* StandardConfigProcessor.process(config), with path the position of config
\* below the root.
process(provider, cfg, path) ==
    LET config_kls == cfg.type
    IN IF ~is_dataclass(config_kls)
       THEN [calls |-> <<>>, raised |-> NoException]
       ELSE LET section_handler == ProviderGet(provider, config_kls)
                own == IF section_handler = "LookupError" THEN <<>>
                       ELSE <<[section |-> path, handler |-> section_handler]>>
            IN IF section_handler # "LookupError"
                  /\ provider[config_kls] = "StructureError"
               THEN [calls |-> own, raised |-> <<"handler">>]
               ELSE LET rest == process_fields(provider, cfg, path, 1)
                    IN [calls |-> own \o rest.calls, raised |-> rest.raised]

\* StandardConfigProcessor(section_handlers).process(config)
Process ==
    /\ LET r == process(section_handlers, config, <<>>)
       IN /\ calls' = r.calls
          /\ raised' = r.raised
    /\ entry' = "process"
    /\ UNCHANGED <<config, section_handlers>>
    /\ UNCHANGED <<registerVars, loadVars, listVars>>

\* process_config(context, config): the processor is built over the
\* registry the context holds for ConfigSectionHandler.
ProcessConfig ==
    /\ LET config_section_handlers == section_handlers
           r == process(config_section_handlers, config, <<>>)
       IN /\ calls' = r.calls
          /\ raised' = r.raised
    /\ entry' = "process_config"
    /\ UNCHANGED <<config, section_handlers>>
    /\ UNCHANGED <<registerVars, loadVars, listVars>>

NoCreation == [registration |-> 0, raised |-> None, resolved |-> <<>>, constructed |-> <<>>]

IdleRegister == registrations = <<>> /\ creation = NoCreation

NoCall == [method |-> None]

IdleLoad == handler = None /\ supported_schemes = {} /\ load = NoCall

IdleList ==
    modules = <<>> /\ drop_p = 0 /\ training = TRUE /\ yielded = [iterated |-> FALSE]

IdleConfig ==
    /\ config = IntValue
    /\ section_handlers = [t \in DataclassTypes \cup OtherTypes |-> "none"]
    /\ calls = <<>>
    /\ raised = NoException
    /\ entry = None

InitConfig ==
    /\ config \in Values
    /\ section_handlers \in Providers
    /\ calls = <<>>
    /\ raised = NoException
    /\ entry = None
    /\ IdleRegister /\ IdleLoad /\ IdleList

NextConfig == Process \/ ProcessConfig

SpecConfig == InitConfig /\ [][NextConfig]_vars

-----------------------------------------------------------------------------
(* Properties of the configuration walk *)

\* Positions below the root: sequences of field (or element) indices.
Paths == UNION {[1..n -> 1..2] : n \in 0..(MaxNodes - 1)}

RECURSIVE ValidPath(_, _)
ValidPath(cfg, p) ==
    \/ p = <<>>
    \/ /\ Head(p) <= Len(cfg.vals)
       /\ ValidPath(cfg.vals[Head(p)], Tail(p))

RECURSIVE ValueAt(_, _)
ValueAt(cfg, p) ==
    IF p = <<>> THEN cfg ELSE ValueAt(cfg.vals[Head(p)], Tail(p))

\* The dataclass instances reachable from the root through dataclass fields.
ReachableSections ==
    {p \in Paths :
        /\ ValidPath(config, p)
        /\ \A k \in 0..Len(p) : is_dataclass(ValueAt(config, SubSeq(p, 1, k)).type)}

TypeAt(p) == ValueAt(config, p).type

HandledSections == {p \in ReachableSections : section_handlers[TypeAt(p)] # "none"}

RaisingSections ==
    {p \in ReachableSections : section_handlers[TypeAt(p)] = "StructureError"}

IsProperPrefix(p, q) == Len(p) < Len(q) /\ SubSeq(q, 1, Len(p)) = p

\* p comes before q in a pre-order walk that visits fields in declaration
\* order.
PreOrderBefore(p, q) ==
    \/ IsProperPrefix(p, q)
    \/ \E k \in 1..Len(p) :
          /\ k <= Len(q)
          /\ SubSeq(p, 1, k - 1) = SubSeq(q, 1, k - 1)
          /\ p[k] < q[k]

Called(p) == \E i \in DOMAIN calls : calls[i].section = p

\* C1: when no handler of a reachable section raises, process and
\* process_config invoke the handler registered for the type of a section
\* exactly once on every reachable dataclass section that has one, on nothing
\* else, and in pre-order (a section before its fields, fields in declaration
\* order).
C1_PreOrderExactlyOnce ==
    (entry # None /\ RaisingSections = {}) =>
        /\ raised = NoException
        /\ \A p \in HandledSections :
              Cardinality({i \in DOMAIN calls : calls[i].section = p}) = 1
        /\ \A i \in DOMAIN calls :
              /\ calls[i].section \in HandledSections
              /\ calls[i].handler = TypeAt(calls[i].section)
        /\ \A i, j \in DOMAIN calls :
              i < j => PreOrderBefore(calls[i].section, calls[j].section)

\* A walk of A(B(C()), C()) with every handler registered: the section two
\* levels down is handled before the root's second field.
C1_Witness ==
    /\ entry = "process_config"
    /\ RaisingSections = {}
    /\ calls = <<[section |-> <<>>, handler |-> "A"],
                 [section |-> <<1>>, handler |-> "B"],
                 [section |-> <<1, 1>>, handler |-> "C"],
                 [section |-> <<2>>, handler |-> "C"]>>

\* C8: process does nothing on a value whose type is not a dataclass, even
\* when a handler is registered for that type; it never visits a dataclass
\* held inside a non-dataclass container; and a section without a handler is
\* skipped without an error while the handled sections below it are still
\* invoked (unless a handler earlier in the walk raised).
C8_NonDataclassAndUnhandled ==
    entry # None =>
        /\ ~is_dataclass(config.type) => (calls = <<>> /\ raised = NoException)
        /\ \A i \in DOMAIN calls : calls[i].section \in ReachableSections
        /\ (raised = NoException) <=> (RaisingSections = {})
        /\ \A p \in ReachableSections \ HandledSections :
              /\ ~Called(p)
              /\ \A q \in HandledSections :
                    (/\ IsProperPrefix(p, q)
                     /\ \A r \in RaisingSections : ~PreOrderBefore(r, q))
                    => Called(q)

\* A(list(C()), C()) with handlers for list and C but none for A: only the
\* C below the unhandled root is handled, the one inside the list is not.
C8_Witness ==
    /\ entry = "process"
    /\ config = [type |-> "A",
                 vals |-> <<[type |-> "list", vals |-> <<[type |-> "C", vals |-> <<>>]>>],
                            [type |-> "C", vals |-> <<>>]>>]
    /\ section_handlers["A"] = "none"
    /\ section_handlers["list"] = "ok"
    /\ calls = <<[section |-> <<2>>, handler |-> "C"]>>
    /\ raised = NoException

-----------------------------------------------------------------------------
(* Tokenizer families: registration and handler creation *)

Families == {"char_tokenizer", "sentencepiece"}

ConfigKlasses == {"CharTokenizerConfig", "SentencePieceConfig"}

Loaders == {"loader"}

AdvancedLoaders == {"advanced_loader"}

\* A handler whose constructor stores the configuration type as the family.
StandardTokenizerFamilyHandler_wrong_family(family, kls, loader, fs, adm, acl) ==
    [_family |-> kls,
     _config_kls |-> kls,
     _loader |-> loader,
     _file_system |-> fs,
     _asset_download_manager |-> adm,
     _asset_config_loader |-> acl]

\* StandardTokenizerFamilyHandler.__init__
StandardTokenizerFamilyHandler(family, kls, loader, fs, adm, acl) ==
    [_family |-> family,
     _config_kls |-> kls,
     _loader |-> loader,
     _file_system |-> fs,
     _asset_download_manager |-> adm,
     _asset_config_loader |-> acl]

\* StandardTokenizerFamilyHandler.family
family_of(h) == h._family

\* StandardTokenizerFamilyHandler.config_kls
config_kls_of(h) == h._config_kls

\* The local function create_handler wraps an advanced loader in.
WrappedLoader(advanced_loader) == "load_tokenizer"

\* A factory that prefers the advanced loader when both loaders are given.
create_handler_no_conflict_check(closure) ==
    IF closure.advanced_loader = None /\ closure.loader = None
    THEN [raised |-> "ValueError", resolved |-> <<>>, constructed |-> <<>>,
          loader |-> closure.loader]
    ELSE LET loader == IF closure.advanced_loader # None
                       THEN WrappedLoader(closure.advanced_loader)
                       ELSE closure.loader
         IN [raised |-> None,
             resolved |-> <<"FileSystem", "AssetDownloadManager", "AssetConfigLoader">>,
             constructed |-> <<StandardTokenizerFamilyHandler(
                                 closure.family, closure.config_kls, loader,
                                 "file_system", "asset_download_manager",
                                 "asset_config_loader")>>,
             loader |-> loader]

\* create_handler(resolver) over the variables the closure captured; loader
\* in the result is the value the nonlocal cell is left with.
create_handler(closure) ==
    IF closure.advanced_loader # None /\ closure.loader # None
    THEN [raised |-> "ValueError", resolved |-> <<>>, constructed |-> <<>>,
          loader |-> closure.loader]
    ELSE IF closure.advanced_loader = None /\ closure.loader = None
    THEN [raised |-> "ValueError", resolved |-> <<>>, constructed |-> <<>>,
          loader |-> closure.loader]
    ELSE LET loader == IF closure.advanced_loader # None
                       THEN WrappedLoader(closure.advanced_loader)
                       ELSE closure.loader
         IN [raised |-> None,
             resolved |-> <<"FileSystem", "AssetDownloadManager", "AssetConfigLoader">>,
             constructed |-> <<StandardTokenizerFamilyHandler(
                                 closure.family, closure.config_kls, loader,
                                 "file_system", "asset_download_manager",
                                 "asset_config_loader")>>,
             loader |-> loader]

\* register_tokenizer_family(container, family, config_kls, loader=...,
\* advanced_loader=...): one container.register call; loader_arg keeps the
\* argument the closure cell started from.
RegisterTokenizerFamily ==
    /\ Len(registrations) < MaxRegistrations
    /\ \E family \in Families, kls \in ConfigKlasses,
          loader \in Loaders \cup {None},
          advanced_loader \in AdvancedLoaders \cup {None} :
          registrations' = Append(registrations,
              [kls |-> "TokenizerFamilyHandler",
               key |-> family,
               family |-> family,
               config_kls |-> kls,
               loader |-> loader,
               advanced_loader |-> advanced_loader,
               loader_arg |-> loader])
    /\ UNCHANGED creation
    /\ UNCHANGED <<configVars, loadVars, listVars>>

\* The resolver invokes the factory of a registration.
CreateHandler ==
    /\ \E i \in DOMAIN registrations :
          LET r == create_handler(registrations[i])
          IN /\ creation' = [registration |-> i, raised |-> r.raised,
                             resolved |-> r.resolved, constructed |-> r.constructed]
             /\ registrations' = [registrations EXCEPT ![i].loader = r.loader]
    /\ UNCHANGED <<configVars, loadVars, listVars>>

InitRegister ==
    /\ registrations = <<>>
    /\ creation = NoCreation
    /\ IdleConfig /\ IdleLoad /\ IdleList

NextRegister == RegisterTokenizerFamily \/ CreateHandler

SpecRegister == InitRegister /\ [][NextRegister]_vars

\* C2: a step registers at most one factory, every registration is a
\* TokenizerFamilyHandler factory under key = family, and a handler a factory
\* produced reports the family (which is the key) and the configuration type
\* of its registration.
C2_RegisteredUnderFamily ==
    [][/\ Len(registrations') # Len(registrations) =>
             /\ Len(registrations') = Len(registrations) + 1
             /\ SubSeq(registrations', 1, Len(registrations)) = registrations
       /\ \A i \in DOMAIN registrations' :
             /\ registrations'[i].kls = "TokenizerFamilyHandler"
             /\ registrations'[i].key = registrations'[i].family
       /\ \A i \in DOMAIN creation'.constructed :
             /\ family_of(creation'.constructed[i])
                    = registrations'[creation'.registration].key
             /\ config_kls_of(creation'.constructed[i])
                    = registrations'[creation'.registration].config_kls]_vars

\* Two families are registered and the second one's handler was produced.
C2_Witness ==
    /\ Len(registrations) = 2
    /\ registrations[1].key # registrations[2].key
    /\ registrations[1].config_kls = registrations[2].config_kls
    /\ creation.registration = 2
    /\ Len(creation.constructed) = 1
    /\ family_of(creation.constructed[1]) = "sentencepiece"

BothOrNeitherGiven(reg) == (reg.loader_arg = None) <=> (reg.advanced_loader = None)

\* C3: invoking the factory of a registration made with both loaders, or with
\* neither, raises ValueError, constructs no handler and resolves nothing;
\* such registrations themselves are accepted.
C3_ExactlyOneLoader ==
    creation.registration # 0 =>
        (BothOrNeitherGiven(registrations[creation.registration]) =>
            /\ creation.raised = "ValueError"
            /\ creation.constructed = <<>>
            /\ creation.resolved = <<>>)

\* A registration with both loaders was accepted and its factory raised.
C3_Witness ==
    /\ creation.registration # 0
    /\ registrations[creation.registration].loader_arg # None
    /\ registrations[creation.registration].advanced_loader # None
    /\ creation.raised = "ValueError"

-----------------------------------------------------------------------------
(* StandardTokenizerFamilyHandler: loading a tokenizer *)

Schemes == {"file", "https", "hg"}

SchemeSets == {{"file"}, {"file", "https"}, {"https", "hg"}}

CardNames == {"card_a", "card_b"}

Cards == [name : CardNames, scheme : Schemes]

\* What the loader does when called: returns a tokenizer or raises an
\* exception of one of these classes.
ExceptionClasses ==
    {"ValueError", "UnicodeDecodeError", "TokenizerModelError",
     "FileNotFoundError", "PermissionError", "OSError", "RuntimeError"}

LoaderBehaviours == {"return"} \cup ExceptionClasses

\* The base classes of an exception class, itself included.
Bases(kls) ==
    CASE kls = "UnicodeDecodeError" -> {"UnicodeDecodeError", "ValueError"}
      [] kls = "FileNotFoundError" -> {"FileNotFoundError", "OSError"}
      [] kls = "PermissionError" -> {"PermissionError", "OSError"}
      [] OTHER -> {kls}

\* isinstance(ex, kls), which an except clause tests
IsInstance(ex, kls) == kls \in Bases(ex)

NoError == [type |-> None, name |-> None, msg |-> None, cause |-> None]

\* AssetCardError(name, msg), raised from cause
AssetCardError(name, msg, cause) ==
    [type |-> "AssetCardError", name |-> name, msg |-> msg, cause |-> cause]

\* An exception of class kls that passes through untranslated.
Untranslated(kls) == [type |-> kls, name |-> None, msg |-> None, cause |-> None]

\* fairseq2.error.raise_operational_system_error(ex)
raise_operational_system_error(ex) ==
    [type |-> "OperationalError", name |-> None, msg |-> "system_error", cause |-> ex]

\* The except clauses with the tests for FileNotFoundError and OSError in
\* the wrong order.
translate_os_error_first(h, card, has_custom_config, ex) ==
    IF IsInstance(ex, "ValueError")
    THEN IF has_custom_config
         THEN Untranslated(ex)
         ELSE AssetCardError(card.name, "invalid_tokenizer_config", ex)
    ELSE IF IsInstance(ex, "TokenizerModelError")
    THEN AssetCardError(card.name, "model_cannot_be_loaded", ex)
    ELSE IF IsInstance(ex, "OSError")
    THEN raise_operational_system_error(ex)
    ELSE IF IsInstance(ex, "FileNotFoundError")
    THEN IF card.scheme # "file"
         THEN raise_operational_system_error(ex)
         ELSE AssetCardError(card.name, "not_found", None)
    ELSE Untranslated(ex)

\* The except clauses with the test of has_custom_config inverted.
translate_custom_inverted(h, card, has_custom_config, ex) ==
    IF IsInstance(ex, "ValueError")
    THEN IF ~has_custom_config
         THEN Untranslated(ex)
         ELSE AssetCardError(card.name, "invalid_tokenizer_config", ex)
    ELSE IF IsInstance(ex, "TokenizerModelError")
    THEN AssetCardError(card.name, "model_cannot_be_loaded", ex)
    ELSE IF IsInstance(ex, "FileNotFoundError")
    THEN IF card.scheme # "file"
         THEN raise_operational_system_error(ex)
         ELSE AssetCardError(card.name, "not_found", None)
    ELSE IF IsInstance(ex, "OSError")
    THEN raise_operational_system_error(ex)
    ELSE Untranslated(ex)

\* The except clauses of load_tokenizer, tried in order, for an exception of
\* class ex raised by the loader.
translate(h, card, has_custom_config, ex) ==
    IF IsInstance(ex, "ValueError")
    THEN IF has_custom_config
         THEN Untranslated(ex)
         ELSE AssetCardError(card.name, "invalid_tokenizer_config", ex)
    ELSE IF IsInstance(ex, "TokenizerModelError")
    THEN AssetCardError(card.name, "model_cannot_be_loaded", ex)
    ELSE IF IsInstance(ex, "FileNotFoundError")
    THEN IF card.scheme # "file"
         THEN raise_operational_system_error(ex)
         ELSE AssetCardError(card.name, "not_found", None)
    ELSE IF IsInstance(ex, "OSError")
    THEN raise_operational_system_error(ex)
    ELSE Untranslated(ex)

\* The call of the loader and the except clauses around it.
call_loader(h, card, has_custom_config, behaviour, effects) ==
    [effects |-> Append(effects, "loader"),
     loader_raised |-> IF behaviour = "return" THEN None ELSE behaviour,
     raised |-> IF behaviour = "return" THEN NoError
                ELSE translate(h, card, has_custom_config, behaviour),
     returned |-> behaviour = "return"]

Failed(effects, error) ==
    [effects |-> effects, loader_raised |-> None, raised |-> error,
     returned |-> FALSE]

\* get_tokenizer_config(card): default_ok tells whether config_kls() can be
\* called without arguments.
get_tokenizer_config(h, card, default_ok, effects) ==
    IF ~default_ok
    THEN [effects |-> effects,
          raised |-> [type |-> "InternalError", name |-> None,
                      msg |-> "no_default_config", cause |-> "TypeError"]]
    ELSE [effects |-> Append(effects, "asset_config_loader.load"),
          raised |-> NoError]

\* Everything of load_tokenizer after the download.
load_after_download(h, card, cfg, default_ok, behaviour, effects) ==
    IF cfg = None
    THEN LET c == get_tokenizer_config(h, card, default_ok, effects)
         IN IF c.raised # NoError
            THEN Failed(c.effects, c.raised)
            ELSE call_loader(h, card, FALSE, behaviour, c.effects)
    ELSE IF cfg # h._config_kls
    THEN Failed(effects, Untranslated("TypeError"))
    ELSE call_loader(h, card, TRUE, behaviour, effects)

\* load_tokenizer with the download started before the scheme is checked.
load_tokenizer_download_first(h, schemes, card, cfg, default_ok, behaviour) ==
    IF card.scheme \notin schemes
    THEN Failed(<<"download_tokenizer">>,
                AssetCardError(card.name, "unsupported_scheme", None))
    ELSE load_after_download(h, card, cfg, default_ok, behaviour,
                             <<"download_tokenizer">>)

\* StandardTokenizerFamilyHandler.load_tokenizer(card, config, progress): cfg
\* is None or the class config is an instance of; effects lists the calls
\* made on the download manager, the asset config loader and the loader.
load_tokenizer(h, schemes, card, cfg, default_ok, behaviour) ==
    IF card.scheme \notin schemes
    THEN Failed(<<>>, AssetCardError(card.name, "unsupported_scheme", None))
    ELSE load_after_download(h, card, cfg, default_ok, behaviour,
                             <<"download_tokenizer">>)

\* StandardTokenizerFamilyHandler.load_custom_tokenizer(path, config)
load_custom_tokenizer(h, cfg, behaviour) ==
    IF cfg # h._config_kls
    THEN Failed(<<>>, Untranslated("TypeError"))
    ELSE [effects |-> <<"loader">>,
          loader_raised |-> IF behaviour = "return" THEN None ELSE behaviour,
          raised |-> IF behaviour = "return" THEN NoError
                     ELSE Untranslated(behaviour),
          returned |-> behaviour = "return"]

Call(method, card, cfg, r) ==
    [method |-> method, card |-> card, config |-> cfg, effects |-> r.effects,
     loader_raised |-> r.loader_raised, raised |-> r.raised,
     returned |-> r.returned]

LoadTokenizer ==
    /\ \E card \in Cards, cfg \in ConfigKlasses \cup {None},
          default_ok \in BOOLEAN, behaviour \in LoaderBehaviours :
          load' = Call("load_tokenizer", card, cfg,
                       load_tokenizer(handler, supported_schemes, card, cfg,
                                      default_ok, behaviour))
    /\ UNCHANGED <<handler, supported_schemes>>
    /\ UNCHANGED <<configVars, registerVars, listVars>>

LoadCustomTokenizer ==
    /\ \E cfg \in ConfigKlasses, behaviour \in LoaderBehaviours :
          load' = Call("load_custom_tokenizer", [name |-> None, scheme |-> None],
                       cfg, load_custom_tokenizer(handler, cfg, behaviour))
    /\ UNCHANGED <<handler, supported_schemes>>
    /\ UNCHANGED <<configVars, registerVars, listVars>>

GetTokenizerConfig ==
    /\ \E card \in Cards, default_ok \in BOOLEAN :
          LET c == get_tokenizer_config(handler, card, default_ok, <<>>)
          IN load' = Call("get_tokenizer_config", card, None,
                          [effects |-> c.effects, loader_raised |-> None,
                           raised |-> c.raised,
                           returned |-> c.raised = NoError])
    /\ UNCHANGED <<handler, supported_schemes>>
    /\ UNCHANGED <<configVars, registerVars, listVars>>

InitLoad ==
    /\ handler \in {StandardTokenizerFamilyHandler(
                        f, k, l, "file_system", "asset_download_manager",
                        "asset_config_loader") :
                    f \in Families, k \in ConfigKlasses,
                    l \in Loaders \cup {WrappedLoader(a) : a \in AdvancedLoaders}}
    /\ supported_schemes \in SchemeSets
    /\ load = NoCall
    /\ IdleConfig /\ IdleRegister /\ IdleList

NextLoad == LoadTokenizer \/ LoadCustomTokenizer \/ GetTokenizerConfig

SpecLoad == InitLoad /\ [][NextLoad]_vars

LoaderRaised(kls) ==
    /\ load.method = "load_tokenizer"
    /\ load.loader_raised # None
    /\ IsInstance(load.loader_raised, kls)

C5_ValueErrorByConfigOrigin ==
    LoaderRaised("ValueError") =>
        /\ load.config # None => load.raised = Untranslated(load.loader_raised)
        /\ load.config = None =>
              load.raised = AssetCardError(load.card.name, "invalid_tokenizer_config",
                                           load.loader_raised)
        /\ (load.raised.type = "AssetCardError") <=> (load.config = None)

\* The loader rejected a configuration the caller passed.
C5_Witness ==
    /\ LoaderRaised("ValueError")
    /\ load.config # None
    /\ load.raised.type = "ValueError"

\* C6: with a tokenizer URI scheme outside supported_schemes load_tokenizer
\* raises AssetCardError for the card, and neither download_tokenizer, nor
\* the asset config loader, nor the loader has been called.
C6_UnsupportedSchemeFirst ==
    (load.method = "load_tokenizer" /\ load.card.scheme \notin supported_schemes) =>
        /\ load.raised = AssetCardError(load.card.name, "unsupported_scheme", None)
        /\ load.effects = <<>>
        /\ ~load.returned

\* A card with an hg URI is loaded without config where only file is
\* supported.
C6_Witness ==
    /\ load.method = "load_tokenizer"
    /\ load.card.scheme = "hg"
    /\ supported_schemes = {"file"}
    /\ load.config = None
    /\ load.raised.type = "AssetCardError"

-----------------------------------------------------------------------------
(* ModuleList *)

Modules == {"layer1", "layer2"}

ModuleLists == UNION {[1..n -> Modules] : n \in 0..MaxModules}

\* drop_p values: negative, 0.0, in between, 1.0 and above 1.0
DropPs == {-1, 0, 1, ProbScale - 1, ProbScale, ProbScale + 1}

NoProbDist == <<>>

\* torch.rand(n): n values of [0, 1), in units of 1/ProbScale
ProbDists(n) == [1..n -> 0..(ProbScale - 1)]

RECURSIVE yield_from(_, _, _, _, _)
\* The loop of __iter__ from index idx (1-based) on.
yield_from(ms, p, use_prob_dist, prob_dist, idx) ==
    IF idx > Len(ms) THEN <<>>
    ELSE (IF ~use_prob_dist \/ prob_dist[idx] > p THEN <<ms[idx]>> ELSE <<>>)
         \o yield_from(ms, p, use_prob_dist, prob_dist, idx + 1)

\* Whether __iter__ draws prob_dist, with `or` in place of `and`.
draws_prob_dist_or(p, is_training) == p > 0 \/ is_training

\* Whether __iter__ draws prob_dist
draws_prob_dist(p, is_training) == p > 0 /\ is_training

NoIteration == [iterated |-> FALSE]

\* ModuleList.__iter__, run to exhaustion; torch.rand is called only when
\* prob_dist is drawn.
Iterate ==
    /\ LET use_prob_dist == draws_prob_dist(drop_p, training)
       IN \E prob_dist \in IF use_prob_dist THEN ProbDists(Len(modules))
                           ELSE {NoProbDist} :
             yielded' = [iterated |-> TRUE,
                         drop_p |-> drop_p,
                         training |-> training,
                         drew |-> use_prob_dist,
                         out |-> yield_from(modules, drop_p, use_prob_dist, prob_dist, 1)]
    /\ UNCHANGED <<modules, drop_p, training>>
    /\ UNCHANGED <<configVars, registerVars, loadVars>>

\* Module.train(mode)
Train ==
    /\ \E mode \in BOOLEAN : training' = mode
    /\ UNCHANGED <<modules, drop_p, yielded>>
    /\ UNCHANGED <<configVars, registerVars, loadVars>>

\* ModuleList(modules, drop_p)
InitList ==
    /\ modules \in ModuleLists
    /\ drop_p \in DropPs
    /\ training = TRUE
    /\ yielded = NoIteration
    /\ IdleConfig /\ IdleRegister /\ IdleLoad

NextList == Iterate \/ Train

SpecList == InitList /\ [][NextList]_vars

\* C7: an iteration made with drop_p <= 0.0, or outside training mode
\* whatever drop_p is, yields every held submodule exactly once in list order.
C7_NoDropOutsideTraining ==
    (yielded.iterated /\ (yielded.drop_p <= 0 \/ ~yielded.training)) =>
        yielded.out = modules

\* An iteration in evaluation mode with drop_p = 1.0 over three submodules.
C7_Witness ==
    /\ yielded.iterated
    /\ ~yielded.training
    /\ yielded.drop_p = ProbScale
    /\ Len(modules) >= 3
    /\ yielded.out = modules

=============================================================================
